---- MODULE Spec2Model ----
(***************************************************************************)
(* Image forensics core of IAdetector: ForensicResult.to_dict, the         *)
(* FusionEngine, the DeepSeek semantic judge and the ForensicsPipeline.    *)
(*                                                                         *)
(* Numbers.  A score s of the program (a float in [0,1], possibly out of   *)
(* range when it comes from the language model) is the integer s * 10^5.   *)
(* A percentage with one decimal (ai_probability) is the integer p * 10.   *)
(* A string that the code searches with `in` is a sequence of characters;  *)
(* a message (reasoning, notes, evidence line) is a sequence of fragments. *)
(***************************************************************************)
EXTENDS Integers, Sequences, FiniteSets, TLC

VARIABLES
    td_result,      \* to_dict harness: the ForensicResult being serialized
    td_dict,        \* to_dict harness: the mapping to_dict() returned
    td_calls,       \* to_dict harness: the calls of to_dict() made so far
    fn_call,        \* call harness: the function called and its arguments
    fn_return,      \* call harness: what the call returned
    pipeline_instance,  \* routes/analyze.py: the global pipeline_instance
    thread_pc,          \* concurrent first requests: position of each thread
    thread_pipeline,    \* concurrent first requests: what get_pipeline() returned
    constructed,        \* the threads whose ForensicsPipeline() call completed
    handles,            \* per pipeline: _loaded flags, loads and UFD classifier
    thread_logits,      \* per thread: the classifier its analysis computed the logit with
    deepseek_enabled,   \* ForensicsPipeline.deepseek_enabled, set by the constructor
    weights_available,  \* environment: clip.load can fetch the ViT-L/14 weights
    clip_loaded,        \* CLIPFeatureExtractor._loaded of the pipeline's extractor
    analysis,           \* number of requests started so far
    req,                \* the request being served
    pc,                 \* position of the request in its handler
    image,              \* the uploaded image of the request
    multilid_result,    \* process(): multilid_result
    ufd_result,         \* process(): ufd_result
    technical_context,  \* process(): technical_context
    image_description,  \* process(): image_description
    prompt,             \* evaluate_evidence(): what the rendered prompt embeds
    res,                \* evaluate_evidence(): what DeepSeekClient.ask returned
    semantic_result,    \* process(): semantic_result
    final_result,       \* the ForensicResult the handler obtained
    raised,             \* the steps of this request that raised an exception
    stdout_utf8,        \* environment: sys.stdout can encode the emoji print() writes
    ufd_weights_file,   \* environment: the file weights/ufd_classifier.pth
    ufd_loaded,         \* UFDExpert._loaded
    weights_status,     \* UFDExpert._weights_status
    ufd_classifier,     \* UFDExpert._classifier
    det_initialized,    \* ImageForensicsDetector._initialized
    det_components,     \* ImageForensicsDetector: the components constructed so far
    det_clip_loaded,    \* CLIPFeatureExtractor._loaded of the detector's extractor
    response,           \* what the request's caller receives
    inserted_row        \* database.py: the row insert_analysis wrote for this request

-----------------------------------------------------------------------------
(* Python helpers *)

None == [kind |-> "None"]

Max2(a, b) == IF b > a THEN b ELSE a
Min2(a, b) == IF b < a THEN b ELSE a

\* dict.get(key, default) on a mapping with string keys
DictGet(d, k, default) == IF k \in DOMAIN d THEN d[k] ELSE default

\* needle in hay, for sequences of characters
Contains(hay, needle) ==
    \E i \in 0..(Len(hay) - Len(needle)) :
        \A j \in 1..Len(needle) : hay[i + j] = needle[j]

\* a mutation of UpperChar that also strips the accent of a letter
UpperCharUnaccent(c) ==
    CASE c = "Í" -> "I"
      [] c = "É" -> "E"
      [] c = "Á" -> "A"
      [] c = "Ó" -> "O"
      [] OTHER -> c

\* str.upper() on one character: the letters that occur in verdicts
UpperChar(c) ==
    CASE c = "r" -> "R"
      [] c = "e" -> "E"
      [] c = "a" -> "A"
      [] c = "l" -> "L"
      [] c = "i" -> "I"
      [] c = "í" -> "Í"
      [] OTHER -> c

Upper(s) == [i \in 1..Len(s) |-> UpperChar(s[i])]

\* round(raw * 100, 1): a score in 10^-5 units to a percentage in tenths
RoundPercent1(raw) == (raw + 50) \div 100

-----------------------------------------------------------------------------
(* schemas.py *)

IA_CONFIRMED ==
    <<"G","E","N","E","R","A","D","A"," ","P","O","R"," ","I","A"," ","/"," ",
      "S","I","N","T","É","T","I","C","A">>
IA_PROBABLE ==
    <<"P","R","O","B","A","B","L","E","M","E","N","T","E"," ",
      "S","I","N","T","É","T","I","C","A">>
REAL_PROBABLE ==
    <<"P","R","O","B","A","B","L","E","M","E","N","T","E"," ","R","E","A","L">>
REAL_CONFIRMED ==
    <<"C","O","M","P","A","T","I","B","L","E"," ","C","O","N"," ",
      "F","O","T","O","G","R","A","F","Í","A"," ","R","E","A","L">>
INCONCLUSIVE ==
    <<"R","E","Q","U","I","E","R","E"," ",
      "V","E","R","I","F","I","C","A","C","I","Ó","N"," ","M","A","N","U","A","L">>

Verdict == {IA_CONFIRMED, IA_PROBABLE, REAL_PROBABLE, REAL_CONFIRMED, INCONCLUSIVE}

\* the literals to_dict searches for
LitSINTETICA == <<"S","I","N","T","É","T","I","C","A">>
LitIA == <<"I","A">>
LitREAL == <<"R","E","A","L">>
LitMANUAL == <<"M","A","N","U","A","L">>
LitINCONCLUSIVE == <<"I","N","C","O","N","C","L","U","S","I","V","E">>

\* to_dict, steps 1 and 2: the score that is displayed
DisplayRaw(verdict, scores) ==
    LET raw == DictGet(scores, "unified", 50000) IN
    IF Contains(verdict, LitSINTETICA) \/ Contains(Upper(verdict), LitIA)
    THEN LET floored == Max2(raw, 85000) IN
         IF floored < 50000 THEN 95000 ELSE floored
    ELSE IF Contains(Upper(verdict), LitREAL)
    THEN Min2(raw, 20000)
    ELSE IF Contains(verdict, LitMANUAL) \/ Contains(verdict, LitINCONCLUSIVE)
    THEN 50000
    ELSE raw

\* a mutation of ToDict: the displayed score is written into the scores
ToDictOverwriteScores(r) ==
    LET raw == DisplayRaw(r.verdict, r.scores) IN
    [verdict |-> r.verdict,
     confidence |-> r.confidence,
     ai_probability |-> RoundPercent1(raw),
     real_probability |-> 1000 - RoundPercent1(raw),
     probabilidad_ia |-> RoundPercent1(raw),
     probabilidad_real |-> 1000 - RoundPercent1(raw),
     scores |-> [k \in DOMAIN r.scores |->
                    IF k = "unified" THEN raw ELSE r.scores[k]],
     evidence |-> r.evidence,
     notes |-> r.notes]

\* ForensicResult.to_dict
ToDict(r) ==
    LET ai_prob == RoundPercent1(DisplayRaw(r.verdict, r.scores))
        real_prob == 1000 - ai_prob
    IN [verdict |-> r.verdict,
        confidence |-> r.confidence,
        ai_probability |-> ai_prob,
        real_probability |-> real_prob,
        probabilidad_ia |-> ai_prob,
        probabilidad_real |-> real_prob,
        scores |-> r.scores,
        evidence |-> r.evidence,
        notes |-> r.notes]

-----------------------------------------------------------------------------
(* Exceptions: a call either returns a value or raises *)

Return(v) == [raised |-> FALSE, value |-> v]
Raise(e) == [raised |-> TRUE, exc |-> e]

\* ExpertResult(name, score, confidence, evidence, raw_data)
ExpertResult(name, score, confidence, evidence, raw_data) ==
    [name |-> name, score |-> score, confidence |-> confidence,
     evidence |-> evidence, raw_data |-> raw_data]

\* ForensicResult(verdict, confidence, scores, evidence, notes)
ForensicResult(verdict, confidence, scores, evidence, notes) ==
    [verdict |-> verdict, confidence |-> confidence, scores |-> scores,
     evidence |-> evidence, notes |-> notes]

-----------------------------------------------------------------------------
(* fusion_engine.py *)

VERDICT_IA == IA_CONFIRMED
VERDICT_REAL == REAL_CONFIRMED

\* a mutation of FuseIsIA: the threshold compared with >=
FuseIsIAInclusive(final_score) == final_score >= 60000

\* fuse: `if final_score > 0.60`
FuseIsIA(final_score) == final_score > 60000

\* FusionEngine.__init__(self): a keyword argument is a TypeError
FusionEngineInit(kwargs) ==
    IF kwargs = {} THEN Return("FusionEngine") ELSE Raise("TypeError")

\* a mutation of Fuse: without a semantic finding the unified score is the
\* mean of the two numeric scores
FuseWithMean(multilid, ufd, semantic) ==
    IF semantic # None /\ semantic.raw_data = None
    THEN Raise("AttributeError")
    ELSE
    LET final_score == IF semantic = None
                       THEN (multilid.score + ufd.score) \div 2
                       ELSE semantic.score
        reasoning == IF semantic = None
                     THEN <<"No semantic analysis available">>
                     ELSE DictGet(semantic.raw_data, "reasoning",
                                  <<"Análisis completado">>)
        isIA == FuseIsIA(final_score)
        ai_prob == RoundPercent1(final_score)
        real_prob == 1000 - ai_prob
    IN Return(ForensicResult(
           IF isIA THEN VERDICT_IA ELSE VERDICT_REAL,
           "ALTA",
           [unified |-> final_score,
            ai_probability |-> ai_prob,
            real_probability |-> real_prob,
            deepseek |-> final_score,
            multilid |-> multilid.score,
            ufd |-> ufd.score,
            semantic |-> final_score],
           <<>>,
           (IF isIA THEN <<"IA DETECTADA: ">> ELSE <<"FOTO REAL: ">>)
               \o reasoning))

\* FusionEngine.fuse
Fuse(multilid, ufd, semantic) ==
    IF semantic # None /\ semantic.raw_data = None
    THEN Raise("AttributeError")    \* None.get("reasoning", ...)
    ELSE
    LET final_score == IF semantic = None THEN 50000 ELSE semantic.score
        reasoning == IF semantic = None
                     THEN <<"No semantic analysis available">>
                     ELSE DictGet(semantic.raw_data, "reasoning",
                                  <<"Análisis completado">>)
        isIA == FuseIsIA(final_score)
        ai_prob == RoundPercent1(final_score)
        real_prob == 1000 - ai_prob
    IN Return(ForensicResult(
           IF isIA THEN VERDICT_IA ELSE VERDICT_REAL,
           "ALTA",
           [unified |-> final_score,
            ai_probability |-> ai_prob,
            real_probability |-> real_prob,
            deepseek |-> final_score,
            multilid |-> multilid.score,
            ufd |-> ufd.score,
            semantic |-> final_score],
           <<>>,
           (IF isIA THEN <<"IA DETECTADA: ">> ELSE <<"FOTO REAL: ">>)
               \o reasoning))

-----------------------------------------------------------------------------
(* deepseek_client.py and semantic_expert.py *)

\* f"{x:.4f}": a score in 10^-5 units rendered with four decimals (10^-4 units)
Format4(x) == (x + 5) \div 10

\* DeepSeekClient.ask: what the caller gets for an outcome of requests.post
Ask(outcome) ==
    IF outcome.ok
    THEN [success |-> TRUE, response |-> outcome.text]
    ELSE [success |-> FALSE, error |-> "ConnectionError"]

\* float(v) of a JSON value
PyFloat(v) == IF v.type = "number" THEN Return(v.val) ELSE Raise("ValueError")

\* evaluate_evidence, lines 131-143: the JSON object is looked for in the
\* part of the text after the last "</think>"; the text is the sequence of
\* the parts that "</think>" separates
ExtractJudgement(r) ==
    LET text == DictGet(r, "response", <<[kind |-> "plain"]>>)
        last == text[Len(text)]
    IN IF last.kind = "plain"
       THEN Return([score |-> 50000,
                    reasoning |-> <<"No se pudo parsear respuesta">>])
       ELSE IF last.kind = "malformed"
       THEN Raise("JSONDecodeError")
       ELSE LET f == PyFloat(DictGet(last.data, "ai_probability_score",
                                     [type |-> "number", val |-> 50000]))
            IN IF f.raised THEN f
               ELSE Return([score |-> f.value,
                            reasoning |-> DictGet(last.data, "reasoning",
                                                  <<"Análisis de zona">>)])

\* a mutation of ZoneEnforce: a multilid of exactly 0.20 is not in zone 1
ZoneEnforceStrict(multilid, ufd, score, reasoning) ==
    IF multilid <= 20000 /\ ufd > 40000
    THEN IF score < 90000
         THEN [score |-> 98000, reasoning |-> reasoning]
         ELSE [score |-> score, reasoning |-> reasoning]
    ELSE IF multilid <= 20000 /\ ufd < 38000
    THEN IF score > 40000
         THEN [score |-> 25000, reasoning |-> reasoning]
         ELSE [score |-> score, reasoning |-> reasoning]
    ELSE IF multilid > 20000
    THEN IF score < 75000
         THEN [score |-> Max2(score, 85000), reasoning |-> reasoning]
         ELSE [score |-> score, reasoning |-> reasoning]
    ELSE [score |-> score, reasoning |-> reasoning]

\* evaluate_evidence, lines 145-166: the triple zone enforcement
ZoneEnforce(multilid, ufd, score, reasoning) ==
    IF multilid < 20000 /\ ufd > 40000
    THEN IF score < 90000
         THEN [score |-> 98000,
               reasoning |-> reasoning \o
                   <<" | ZONA 3: PARADOJA DEL RUIDO - GAN detectado">>]
         ELSE [score |-> score, reasoning |-> reasoning]
    ELSE IF multilid < 20000 /\ ufd < 38000
    THEN IF score > 40000
         THEN [score |-> 25000,
               reasoning |-> reasoning \o
                   <<" | ZONA 2: Filtro destructivo compatible">>]
         ELSE [score |-> score, reasoning |-> reasoning]
    ELSE IF multilid >= 20000
    THEN IF score < 75000
         THEN [score |-> Max2(score, 85000),
               reasoning |-> reasoning \o
                   <<" | ZONA 1: Geometría perfecta de difusión">>]
         ELSE [score |-> score, reasoning |-> reasoning]
    ELSE [score |-> score, reasoning |-> reasoning]

\* what the prompt of evaluate_evidence embeds
RenderPrompt(description, multilid, ufd) ==
    [description |-> description,
     multilid |-> Format4(multilid),
     ufd |-> Format4(ufd)]

\* DeepSeekSemanticEngine.evaluate_evidence, given what ask() returned
EvaluateEvidence(enabled, multilid, ufd, r) ==
    IF ~enabled
    THEN [score |-> 50000, reasoning |-> <<"DeepSeek apagado">>]
    ELSE LET j == ExtractJudgement(r)
         IN IF j.raised
            THEN [score |-> 50000, reasoning |-> <<"Error en juicio IA">>]
            ELSE ZoneEnforce(multilid, ufd, j.value.score, j.value.reasoning)

\* SemanticForensicsExpert.analyze, lines 207-208
ContextValue(ctx, key_score, key) ==
    IF ctx # None
    THEN DictGet(ctx, key_score, DictGet(ctx, key, 50000))
    ELSE 50000

-----------------------------------------------------------------------------
(* feature_extractor.py, multilid_expert.py, ufd_expert.py *)

AbsInt(a) == IF a < 0 THEN 0 - a ELSE a

RECURSIVE SumSeq(_)
SumSeq(s) == IF s = <<>> THEN 0 ELSE Head(s) + SumSeq(Tail(s))

\* 1 / (1 + exp(-x)): pairs <<x, value>>, both in 10^-5 units, for the
\* arguments that the inputs below produce
SigmoidPoints ==
    {<<-800000, 34>>, <<-450000, 1099>>, <<-350000, 2931>>,
     <<-219722, 10000>>, <<-200000, 11920>>, <<-187500, 13296>>,
     <<-138654, 19996>>, <<-138629, 20000>>, <<-109861, 25000>>,
     <<-100000, 26894>>, <<-48964, 37998>>, <<-48954, 38000>>,
     <<-40546, 40000>>, <<-40538, 40002>>, <<0, 50000>>, <<6666, 51666>>,
     <<20000, 54983>>, <<200000, 88080>>, <<800000, 99966>>,
     <<-175000, 14805>>, <<-162500, 16452>>, <<-150000, 18243>>,
     <<-37500, 40733>>, <<-12500, 46879>>, <<150000, 81757>>,
     <<250000, 92414>>, <<259491, 93053>>, <<261787, 93200>>,
     <<262358, 93236>>}

Sigmoid(x) == (CHOOSE p \in SigmoidPoints : p[1] = x)[2]

\* CLIPFeatureExtractor._load_model: returns, or raises what clip.load or the
\* progress print() raised
LoadModel(loaded) ==
    IF loaded THEN Return(TRUE)
    ELSE IF ~stdout_utf8 THEN Raise("UnicodeEncodeError")
    ELSE IF ~weights_available THEN Raise("RuntimeError: Model ViT-L/14 not found")
    ELSE Return(TRUE)

\* extract_features / extract_intermediate_features up to the tensor:
\* _ensure_loaded(), then preprocess_image() opens the image
ExtractFeatures(loaded, img, field) ==
    LET l == LoadModel(loaded) IN
    IF l.raised THEN l
    ELSE IF ~img.readable THEN Raise("UnidentifiedImageError")
    ELSE Return(img[field])

\* a mutation of NeutralResult: the error is recorded but the score is zero
NeutralResultZero(name, prefix, e) ==
    ExpertResult(name, 0, 10000, <<>>, [error |-> e])

\* the recovery of MultiLIDExpert.analyze and UFDExpert.analyze
NeutralResult(name, prefix, e) ==
    ExpertResult(name, 50000, 10000, << <<prefix, e>> >>, [error |-> e])

\* str(n) for the small counts that are printed
Decimal(n) == <<"0", "1", "2", "3", "4">>[n + 1]

\* MultiLIDExpert: z-scores are in 10^-5 units; the layers by their name
INTERMEDIATE_LAYERS == <<"6", "8", "10", "11">>
ANOMALY_THRESHOLD_ZSCORE == 200000
HIGH_CONFIDENCE_ZSCORE == 300000

MaxAbs(z_scores) ==
    CHOOSE a \in {AbsInt(z_scores[i]) : i \in DOMAIN z_scores} :
        \A i \in DOMAIN z_scores : AbsInt(z_scores[i]) <= a

\* np.mean(z_scores)
MeanZ(z_scores) == SumSeq(z_scores) \div Len(z_scores)

\* np.std(z_scores) squared, in 10^-4 units (z-scores taken to 10^-2)
VarZ(z_scores) ==
    LET avg == MeanZ(z_scores)
        dev == [i \in DOMAIN z_scores |->
                   ((z_scores[i] - avg) \div 1000) * ((z_scores[i] - avg) \div 1000)]
    IN SumSeq(dev) \div Len(z_scores)

\* _analyze_layer_lid, lines 220-226: the description of one layer
LayerDesc(i, z) ==
    <<"Capa layer_", INTERMEDIATE_LAYERS[i], ": ",
      IF AbsInt(z) > HIGH_CONFIDENCE_ZSCORE THEN "muy anómalo"
      ELSE IF AbsInt(z) > ANOMALY_THRESHOLD_ZSCORE THEN "anómalo"
      ELSE "normal">>

\* a mutation of SyntheticScore: the largest z-score, not the largest |z|
SyntheticScoreSigned(z_scores) ==
    LET avg_z == MeanZ(z_scores)
        max_z == CHOOSE a \in {z_scores[i] : i \in DOMAIN z_scores} :
                     \A i \in DOMAIN z_scores : z_scores[i] <= a
        synthetic_score == Sigmoid((0 - avg_z) - 100000)
    IN IF max_z > HIGH_CONFIDENCE_ZSCORE THEN Max2(synthetic_score, 75000)
       ELSE IF max_z > ANOMALY_THRESHOLD_ZSCORE
       THEN Max2(synthetic_score, 50000)
       ELSE synthetic_score

\* analyze, lines 277-289
SyntheticScore(z_scores) ==
    LET avg_z == MeanZ(z_scores)
        max_abs_z == MaxAbs(z_scores)
        synthetic_score == Sigmoid((0 - avg_z) - 100000)
    IN IF max_abs_z > HIGH_CONFIDENCE_ZSCORE THEN Max2(synthetic_score, 75000)
       ELSE IF max_abs_z > ANOMALY_THRESHOLD_ZSCORE
       THEN Max2(synthetic_score, 50000)
       ELSE synthetic_score

\* analyze, lines 291-298
LidConfidence(z_scores) ==
    IF VarZ(z_scores) < 10000 THEN 90000
    ELSE IF VarZ(z_scores) < 40000 THEN 70000
    ELSE 50000

\* analyze, lines 258-262 and 300-305
LidEvidence(z_scores) ==
    LET anomalous_layers ==
            Cardinality({i \in DOMAIN z_scores :
                            AbsInt(z_scores[i]) > ANOMALY_THRESHOLD_ZSCORE})
    IN << IF anomalous_layers > 0
          THEN <<Decimal(anomalous_layers), "/", Decimal(Len(z_scores)),
                 " capas con LID anómalo">>
          ELSE <<"Estructura dimensional dentro de parámetros normales">> >>
       \o [i \in DOMAIN z_scores |-> LayerDesc(i, z_scores[i])]

\* MultiLIDExpert.analyze
MultiLIDAnalyze(loaded, img) ==
    LET f == ExtractFeatures(loaded, img, "z_scores") IN
    IF f.raised
    THEN NeutralResult("multiLID", "Error en análisis: ", f.exc)
    ELSE ExpertResult("multiLID", SyntheticScore(f.value),
                      LidConfidence(f.value), LidEvidence(f.value),
                      [summary |-> [avg_z_score |-> MeanZ(f.value),
                                    max_abs_z_score |-> MaxAbs(f.value)]])

\* a float of numpy: finite (v in the units of its use), infinite or nan
Finite(v) == [kind |-> "finite", v |-> v]
NegInf == [kind |-> "-inf", v |-> 0]
PosInf == [kind |-> "inf", v |-> 0]
NaN == [kind |-> "nan", v |-> 0]

\* the order of np.sort: nan after every number
FloatLeq(a, b) == b.kind = "nan" \/ (a.kind = "finite" /\ b.kind = "finite" /\ a.v <= b.v)

RECURSIVE NpInsert(_, _)
NpInsert(x, s) ==
    IF s = <<>> THEN <<x>>
    ELSE IF FloatLeq(x, Head(s)) THEN <<x>> \o s
    ELSE <<Head(s)>> \o NpInsert(x, Tail(s))

RECURSIVE NpSort(_)
NpSort(s) == IF s = <<>> THEN <<>> ELSE NpInsert(Head(s), NpSort(Tail(s)))

\* squareform(pdist(chunks)), distances in whole units.  The chunks of a
\* feature vector either lie on a line (each chunk a coordinate, or nan when a
\* feature of the chunk is nan) or are pairwise at the same distance d
Squareform(features, n_chunks) ==
    [i \in 1..n_chunks |-> [j \in 1..n_chunks |->
        IF i = j THEN Finite(0)
        ELSE IF features.kind = "equidistant" THEN Finite(features.d)
        ELSE IF features.chunks[i].kind = "nan" \/ features.chunks[j].kind = "nan"
        THEN NaN
        ELSE Finite(AbsInt(features.chunks[i].v - features.chunks[j].v))]]

\* np.log(1e-10), 10^-5 units
LOG_FLOOR == -2302585

\* np.log of a whole distance 1, 2, 3, 10^-5 units
LogOf(d) == <<0, 69315, 109861>>[d]

\* np.log(np.maximum(d, 1e-10))
LogClamped(d) ==
    IF d.kind = "nan" THEN NaN
    ELSE IF d.v = 0 THEN Finite(LOG_FLOOR)
    ELSE Finite(LogOf(d.v))

\* np.log(np.maximum(dists / d_k, 1e-10)) for one distance, from the logs
LogRatio(log_d, log_d_k) ==
    IF log_d.kind = "nan" \/ log_d_k.kind = "nan" THEN NaN
    ELSE Finite(Max2(log_d.v - log_d_k.v, LOG_FLOOR))

\* np.sum of floats that are finite or nan
RECURSIVE NpSum(_)
NpSum(s) ==
    IF s = <<>> THEN Finite(0)
    ELSE LET rest == NpSum(Tail(s)) IN
         IF Head(s).kind = "nan" \/ rest.kind = "nan" THEN NaN
         ELSE Finite(Head(s).v + rest.v)

\* -len(dists) / total for a numpy float: no exception, an infinity when the
\* total is 0.0; the quotient in 10^-5 units
LidQuotient(n, total) ==
    IF total.kind = "nan" THEN NaN
    ELSE IF total.v = 0 THEN NegInf
    ELSE IF total.v < 0 THEN Finite((n * 100000000) \div ((0 - total.v) \div 100))
    ELSE Finite(0 - ((n * 100000000) \div (total.v \div 100)))

\* _compute_lid_single_point, lines 181-190: the neighbours of one chunk and
\* its LID; "skipped" when there are fewer than two neighbours
ChunkLid(row, k) ==
    LET sorted == NpSort(row)
        dists == SubSeq(sorted, 2, Min2(k + 1, Len(sorted)))
        logs == [i \in DOMAIN dists |-> LogClamped(dists[i])]
        ratios == [i \in DOMAIN dists |-> LogRatio(logs[i], logs[Len(dists)])]
    IN IF Len(dists) < 2 THEN [kind |-> "skipped", v |-> 0]
       ELSE LidQuotient(Len(dists), NpSum(ratios))

\* a mutation of KeepLid: every LID that was computed is kept
KeepLidAlways(lid) == lid.kind # "skipped"

\* line 191: `if np.isfinite(lid) and lid > 0`
KeepLid(lid) == lid.kind = "finite" /\ lid.v > 0

\* np.mean of a non-empty list of floats
NpMean(s) ==
    IF \E i \in DOMAIN s : s[i].kind = "nan" THEN NaN
    ELSE IF (\E i \in DOMAIN s : s[i].kind = "inf")
            /\ (\E i \in DOMAIN s : s[i].kind = "-inf") THEN NaN
    ELSE IF \E i \in DOMAIN s : s[i].kind = "inf" THEN PosInf
    ELSE IF \E i \in DOMAIN s : s[i].kind = "-inf" THEN NegInf
    ELSE Finite(SumSeq([i \in DOMAIN s |-> s[i].v]) \div Len(s))

\* lines 157-162: the number of chunks of a vector of dim features
NChunks(dim, k) == Max2(4, Min2(k * 2, dim \div 16))

\* MultiLIDExpert._compute_lid_single_point
ComputeLidSinglePoint(features, k) ==
    LET distances == Squareform(features, NChunks(features.dim, k))
        all == [i \in DOMAIN distances |-> ChunkLid(distances[i], k)]
        lids == SelectSeq(all, KeepLid)
    IN IF lids # <<>> THEN NpMean(lids) ELSE Finite(0)

\* MultiLIDExpert.REFERENCE_LID by layer: mean in 10^-5 units, std in tenths
REFERENCE_LID ==
    <<[mean |-> 1520000, std |-> 38], [mean |-> 1240000, std |-> 32],
      [mean |-> 980000, std |-> 29], [mean |-> 810000, std |-> 25]>>

\* _analyze_layer_lid, lines 211-218: the z-score of a layer, 10^-5 units
LayerZScore(features, k, i) ==
    LET lid_value == ComputeLidSinglePoint(features, k) IN
    ((lid_value.v - REFERENCE_LID[i].mean) * 10) \div REFERENCE_LID[i].std

\* an image by the features of its four intermediate layers: what analyze,
\* lines 258-261, derives from them
ImageOfLayers(layers, k) ==
    [readable |-> TRUE,
     z_scores |-> [i \in DOMAIN layers |-> LayerZScore(layers[i], k, i)],
     logit |-> 0,
     layers |-> layers,
     k |-> k]

\* a tensor of a weights file or of the classifier
Tensor(shape, data) == [type |-> "tensor", shape |-> shape, data |-> data]

\* LinearClassifier: fc = nn.Linear(768, 1)
LinearClassifier(weight, bias) == [weight |-> weight, bias |-> bias]

\* nn.Module.load_state_dict (strict) on LinearClassifier
LoadStateDict(state_dict) ==
    IF /\ DOMAIN state_dict = {"fc.weight", "fc.bias"}
       /\ state_dict["fc.weight"].type = "tensor"
       /\ state_dict["fc.bias"].type = "tensor"
       /\ state_dict["fc.weight"].shape = <<1, 768>>
       /\ state_dict["fc.bias"].shape = <<1>>
    THEN Return(LinearClassifier(state_dict["fc.weight"], state_dict["fc.bias"]))
    ELSE Raise("RuntimeError: Error(s) in loading state_dict")

\* UFDExpert._load_weights_with_format_detection: the classifier it loaded,
\* or what made it return False
LoadWeightsWithFormatDetection(state_dict) ==
    LET keys == DOMAIN state_dict IN
    IF {"fc.weight", "fc.bias"} \subseteq keys
    THEN LoadStateDict(state_dict)
    ELSE IF {"weight", "bias"} \subseteq keys
    THEN LoadStateDict(("fc.weight" :> state_dict["weight"])
                       @@ ("fc.bias" :> state_dict["bias"]))
    ELSE IF "model.fc.weight" \in keys
    THEN IF "model.fc.bias" \in keys
         THEN LoadStateDict(("fc.weight" :> state_dict["model.fc.weight"])
                            @@ ("fc.bias" :> state_dict["model.fc.bias"]))
         ELSE Raise("KeyError: 'model.fc.bias'")
    ELSE IF Cardinality(keys) = 1
            /\ (\A k \in keys : state_dict[k].type = "tensor")
    THEN LET weight == state_dict[CHOOSE k \in keys : TRUE] IN
         IF Len(weight.shape) < 2 THEN Raise("IndexError")
         ELSE IF weight.shape[1] = 1 /\ weight.shape[2] = 768
         THEN Return(LinearClassifier(weight, Tensor(<<1>>, "zero")))
         ELSE Raise("unrecognized")
    ELSE Raise("unrecognized")

\* UFDExpert._init_calibrated_weights
CalibratedWeights ==
    LinearClassifier(Tensor(<<1, 768>>, "xavier_normal(gain=1.5)"),
                     Tensor(<<1>>, "constant(-0.2)"))

\* UFDExpert._init_classifier: _loaded, _weights_status and _classifier after it
InitClassifier(loaded, status, classifier, file) ==
    IF loaded THEN [status |-> status, classifier |-> classifier]
    ELSE IF file.kind = "state_dict"
    THEN LET l == LoadWeightsWithFormatDetection(file.tensors) IN
         IF l.raised
         THEN [status |-> "calibrated_init", classifier |-> CalibratedWeights]
         ELSE [status |-> "loaded_from_file", classifier |-> l.value]
    ELSE \* the file is absent, or torch.load raised
         [status |-> "calibrated_init", classifier |-> CalibratedWeights]

\* UFDExpert._apply_temperature with temperature 1.5; logits in 10^-5 units
ApplyTemperature(logits) == Sigmoid((logits * 2) \div 3)

\* UFDExpert._compute_confidence
ComputeConfidence(prob, logits, status) ==
    LET base_confidence == AbsInt(prob - 50000) * 2
        signal_factor == Min2(AbsInt(logits) \div 2, 100000)
        weight_penalty == IF status # "loaded_from_file" THEN 8 ELSE 10
        confidence ==
            ((base_confidence * 6 + signal_factor * 4) * weight_penalty) \div 100
    IN Max2(10000, Min2(confidence, 95000))

\* analyze, lines 289-310
UfdEvidence(prob, status) ==
    (IF prob > 70000
     THEN << <<"Score UFD alto">>, <<"Artefactos visuales de IA detectados">> >>
     ELSE IF prob > 55000
     THEN << <<"Score UFD moderado-alto">>,
             <<"Posibles patrones de generación IA">> >>
     ELSE IF prob > 45000
     THEN << <<"Score UFD intermedio">>,
             <<"Sin patrones claros de IA o realidad">> >>
     ELSE IF prob > 30000
     THEN << <<"Score UFD bajo">>, <<"Pocos indicadores de síntesis">> >>
     ELSE << <<"Score UFD muy bajo">>,
             <<"Patrones consistentes con imagen real">> >>)
    \o (IF status # "loaded_from_file"
        THEN << <<"Usando pesos ", status>> >> ELSE <<>>)

\* UFDExpert.analyze, after _init_classifier
UFDAnalyze(loaded, img, status) ==
    LET f == ExtractFeatures(loaded, img, "logit") IN
    IF f.raised
    THEN NeutralResult("UFD", "Error en análisis UFD: ", f.exc)
    ELSE LET prob == ApplyTemperature(f.value) IN
         ExpertResult("UFD", prob, ComputeConfidence(prob, f.value, status),
                      UfdEvidence(prob, status),
                      [probability |-> prob, logits |-> f.value,
                       weights_status |-> status])

-----------------------------------------------------------------------------
(* forensics_pipeline.py and routes/analyze.py *)

ERROR_EN_ANALISIS ==
    <<"E","R","R","O","R"," ","E","N"," ","A","N","Á","L","I","S","I","S">>

\* a mutation of ProcessExcept: the handler lets the exception through
ProcessExceptReraise(e) == Raise(e)

\* ForensicsPipeline.process, lines 152-165
ProcessExcept(e) ==
    Return(ForensicResult(ERROR_EN_ANALISIS, "N/A",
                          [unified |-> 0, ai_probability |-> 0,
                           real_probability |-> 0],
                          <<>>, <<"Error: ", e>>))

\* a mutation of TechnicalContext: the keys SemanticForensicsExpert does not read
TechnicalContextOtherKeys(m, u) == [multiLID |-> m.score, UFD |-> u.score]

\* process, lines 102-105
TechnicalContext(m, u) == [multilid |-> m.score, ufd |-> u.score]

\* SemanticForensicsExpert.analyze, after the print(): the ExpertResult
SemanticResult(enabled, multilid_val, ufd_val, r) ==
    LET a == IF enabled
             THEN EvaluateEvidence(TRUE, multilid_val, ufd_val, r)
             ELSE [score |-> (multilid_val + ufd_val) \div 2,
                   reasoning |-> <<"DeepSeek no disponible - score promedio">>]
    IN ExpertResult("DeepSeek Judge V13.0", a.score, 100000, <<>>,
                    [reasoning |-> a.reasoning,
                     multilid |-> multilid_val, ufd |-> ufd_val])

-----------------------------------------------------------------------------
(* database.py *)

\* ' | '.join(evidence): the lines with the separator between them
RECURSIVE JoinLines(_)
JoinLines(lines) ==
    IF lines = <<>> THEN <<>>
    ELSE IF Len(lines) = 1 THEN Head(lines)
    ELSE Head(lines) \o <<" | ">> \o JoinLines(Tail(lines))

\* insert_analysis, lines 102-121 and 149-159: the row written for a result
\* dictionary.  ai_probability is in tenths of a percent, like the
\* ai_probability of to_dict: scores['ai_probability'] (tenths of a percent)
\* times 100, or scores['unified'] (10^-5 units) times 100
InsertAnalysis(media_type, result) ==
    LET verdict == DictGet(result, "verdict", <<"UNKNOWN">>)
        notes == DictGet(result, "notes", <<>>)
        scores == DictGet(result, "scores", <<>>)
    IN IF media_type = "IMAGE"
       THEN [media_type |-> media_type,
             verdict |-> verdict,
             ai_probability |->
                 IF "ai_probability" \in DOMAIN scores
                 THEN scores["ai_probability"] * 100
                 ELSE DictGet(scores, "unified", 0) \div 100,
             meta_1 |-> DictGet(scores, "MultiLID", 0),
             meta_2 |-> DictGet(scores, "UFD", 0),
             notes |-> IF notes = <<>> /\ "evidence" \in DOMAIN result
                       THEN JoinLines(result["evidence"])
                       ELSE notes]
       ELSE None

-----------------------------------------------------------------------------
(* Inputs *)

\* the most requests served in one run
MaxAnalyses == 2

\* the threads that serve concurrent first requests
NumThreads == 2
Threads == 1..NumThreads

\* the most calls of to_dict() on one result
MaxToDictCalls == 2

\* z-scores (the same in the four layers) and classifier logits, 10^-5 units,
\* whose scores fall on both sides of the zone boundaries 0.20, 0.38 and 0.40:
\* MultiLID 0.10000, 0.19996, 0.20000, 0.25000 and
\* UFD 0.10000, 0.37998, 0.38000, 0.40000, 0.40002
ZGrid == {119722, 38654, 38629, 9861}
LogitGrid == {-329583, -73446, -73431, -60819, -60807}

Uniform(z) == <<z, z, z, z>>

\* every layer's z-score 0 and a strongly negative logit (UFD 0.00034)
NaturalImage == [readable |-> TRUE, z_scores |-> Uniform(0), logit |-> -1200000]

\* one layer with a very anomalous LID
AnomalousImage ==
    [readable |-> TRUE, z_scores |-> <<350000, 0, 0, 0>>, logit |-> -1200000]

UnreadableImage == [readable |-> FALSE, z_scores |-> Uniform(0), logit |-> 0]

Images ==
    {[readable |-> TRUE, z_scores |-> Uniform(z), logit |-> l] :
        z \in ZGrid, l \in LogitGrid}
    \cup {NaturalImage, AnomalousImage, UnreadableImage}

\* the contents of weights/ufd_classifier.pth
WeightTensor(data) == Tensor(<<1, 768>>, data)
BiasTensor(data) == Tensor(<<1>>, data)

StateDicts ==
    {("fc.weight" :> WeightTensor("w1")) @@ ("fc.bias" :> BiasTensor("b1")),
     ("weight" :> WeightTensor("w2")) @@ ("bias" :> BiasTensor("b2")),
     ("model.fc.weight" :> WeightTensor("w3")) @@ ("model.fc.bias" :> BiasTensor("b3")),
     ("classifier" :> WeightTensor("w4")),
     ("classifier" :> Tensor(<<1, 512>>, "w5")),
     ("classifier" :> Tensor(<<768>>, "w6")),
     ("fc.weight" :> WeightTensor("w1")),
     ("model.fc.weight" :> WeightTensor("w3")),
     ("fc.weight" :> WeightTensor("w1")) @@ ("fc.bias" :> BiasTensor("b1"))
         @@ ("weight" :> WeightTensor("w2")) @@ ("bias" :> BiasTensor("b2")),
     ("weight" :> WeightTensor("w2")) @@ ("bias" :> BiasTensor("b2"))
         @@ ("model.fc.weight" :> WeightTensor("w3")) @@ ("model.fc.bias" :> BiasTensor("b3")),
     ("fc.weight" :> Tensor(<<1, 512>>, "w5")) @@ ("fc.bias" :> BiasTensor("b1")),
     ("state_dict" :> [type |-> "dict"]),
     ("epoch" :> [type |-> "int"]) @@ ("state_dict" :> [type |-> "dict"])}

WeightFiles ==
    {[kind |-> "absent"], [kind |-> "unreadable"]}
    \cup {[kind |-> "state_dict", tensors |-> sd] : sd \in StateDicts}

\* the weights files tried on the whole pipeline
PipelineWeightFiles ==
    {[kind |-> "absent"],
     [kind |-> "state_dict",
      tensors |-> ("fc.weight" :> WeightTensor("w1")) @@ ("fc.bias" :> BiasTensor("b1"))]}

\* the images tried on the UFD expert alone: logits around 0 and far from it
UfdLogits == {-1200000, -300000, 0, 9999, 30000, 300000, 1200000}
UfdImages ==
    {[readable |-> TRUE, z_scores |-> Uniform(0), logit |-> l] : l \in UfdLogits}
    \cup {UnreadableImage}

\* what the language model may put in ai_probability_score and reasoning
JudgeScores == {-30000, 10000, 60000, 60002, 74998, 95000, 170000}
JudgeReasonings ==
    {<<"anime-style illustration">>, <<"No se pudo parsear respuesta">>}

Number(v) == [type |-> "number", val |-> v]

JsonObjects ==
    {[ai_probability_score |-> Number(v), reasoning |-> r] :
        v \in JudgeScores, r \in JudgeReasonings}
    \cup {[reasoning |-> <<"anime-style illustration">>]}
    \cup {[ai_probability_score |-> Number(v)] : v \in {10000, 95000}}
    \cup {[ai_probability_score |-> [type |-> "string", val |-> 0],
           reasoning |-> <<"anime-style illustration">>]}

Json(d) == [kind |-> "json", data |-> d]

\* the texts of the service, as the parts "</think>" separates
Texts ==
    {<<[kind |-> "plain"]>>, <<[kind |-> "malformed"]>>}
    \cup {<<Json(d)>> : d \in JsonObjects}
    \cup {<<Json([ai_probability_score |-> Number(10000)]),
            Json([ai_probability_score |-> Number(95000)])>>,
          <<Json([ai_probability_score |-> Number(95000)]),
            [kind |-> "plain"]>>}

\* the outcomes of requests.post in DeepSeekClient.ask
ServiceOutcomes ==
    {[ok |-> FALSE]} \cup {[ok |-> TRUE, text |-> t] : t \in Texts}

\* the images and service outcomes tried on the Gradio detector
DetectorImages ==
    {[readable |-> TRUE, z_scores |-> Uniform(9861), logit |-> -329583],
     UnreadableImage}
DetectorOutcomes ==
    {[ok |-> FALSE],
     [ok |-> TRUE, text |-> <<Json([ai_probability_score |-> Number(95000)])>>]}

\* the bodies POSTed to /api/fusion
FusionBodies ==
    {[multilid_result |-> [score |-> m, confidence |-> 90000],
      ufd_result |-> [score |-> u, confidence |-> 50000]] :
        m \in {10000, 90000}, u \in {20000, 90000}}
    \cup {[multilid_result |-> [score |-> 10000, confidence |-> 90000],
           ufd_result |-> [score |-> 20000, confidence |-> 50000],
           semantic_result |-> [score |-> x, confidence |-> 80000]] :
            x \in {30000, 85000}}
    \cup {[multilid_result |-> [score |-> 10000, confidence |-> 90000]]}

\* feature vectors of one layer (hidden size 1024), by their chunks: every
\* placement of the chunks on the coordinates 0, 1, 3 or nan, and chunks that
\* are pairwise at the distance 1, 2 or 3
KNeighbors == {1, 2, 3}
Coordinates == {Finite(0), Finite(1), Finite(3), NaN}
LineFeatures(k) ==
    {[dim |-> 1024, kind |-> "line", chunks |-> c] :
        c \in [1..NChunks(1024, k) -> Coordinates]}
EquidistantFeatures ==
    {[dim |-> 1024, kind |-> "equidistant", d |-> d] : d \in 1..3}
LidCalls ==
    UNION {{[fn |-> "compute_lid_single_point", features |-> f, k |-> k] :
               f \in LineFeatures(k) \cup EquidistantFeatures} :
           k \in KNeighbors}

\* images by the features of their layers, analysed with k = 2: the same
\* features in the four layers (identical chunks, equidistant chunks, chunks
\* of nan, chunks spread on a line), and one spread layer with three
\* degenerate ones
IdenticalChunks ==
    [dim |-> 1024, kind |-> "line", chunks |-> [i \in 1..4 |-> Finite(0)]]
NanChunks == [dim |-> 1024, kind |-> "line", chunks |-> [i \in 1..4 |-> NaN]]
SpreadChunks ==
    [dim |-> 1024, kind |-> "line",
     chunks |-> <<Finite(0), Finite(1), Finite(3), Finite(1)>>]
LayerImages ==
    {ImageOfLayers(Uniform(f), 2) :
        f \in {IdenticalChunks, NanChunks, SpreadChunks}
              \cup EquidistantFeatures}
    \cup {ImageOfLayers(<<SpreadChunks, IdenticalChunks, IdenticalChunks,
                          IdenticalChunks>>, 2)}

\* images by the z-scores of their layers: uniform, one anomalous layer of
\* either sign, at the thresholds 2.0 and 3.0, and alternating signs whose
\* standard deviation is 1.0, 1.5, 2.0 and 3.5
ZVectors ==
    {Uniform(z) : z \in {-350000, -250000, 0, 250000, 350000}}
    \cup {<<z, 0, 0, 0>> :
             z \in {-350000, -250000, 200000, 250000, 300000, 350000}}
    \cup {<<-350000, 200000, 200000, 200000>>}
    \cup {<<z, 0 - z, z, 0 - z>> : z \in {100000, 150000, 200000, 350000}}
AnalyzeCalls ==
    {[fn |-> "analyze", image |-> img] :
        img \in LayerImages
                \cup {[readable |-> TRUE, z_scores |-> z, logit |-> 0] :
                         z \in ZVectors}
                \cup {UnreadableImage}}

\* findings passed to fuse: two pairs of numeric findings and one semantic
\* finding (absent, with or without a reasoning, scores around 0.60)
NumericFindings(name) ==
    {ExpertResult(name, s, 90000, << <<"evidence of ", name>> >>,
                  [probability |-> s]) : s \in {20000, 90000}}
SemanticFindings ==
    {None}
    \cup {ExpertResult("Semantic", 85000, 80000, <<>>, None)}
    \cup {ExpertResult("DeepSeek Judge V13.0", s, 100000, <<>>, d) :
             s \in {51000, 60000, 60001, 95000},
             d \in {[reasoning |-> <<"anime-style illustration">>],
                    [multilid |-> 50000, ufd |-> 50000]}}
FuseCalls ==
    {[fn |-> "fuse",
      first |-> [multilid |-> m1, ufd |-> u1],
      second |-> [multilid |-> m2, ufd |-> u2],
      semantic |-> s] :
        m1 \in NumericFindings("multiLID"), u1 \in NumericFindings("UFD"),
        m2 \in NumericFindings("multiLID"), u2 \in NumericFindings("UFD"),
        s \in SemanticFindings}

-----------------------------------------------------------------------------
(* State *)

env == <<deepseek_enabled, weights_available, stdout_utf8, ufd_weights_file>>
harness == <<td_result, td_dict, td_calls, fn_call, fn_return>>
threads == <<pipeline_instance, thread_pc, thread_pipeline, constructed, handles,
            thread_logits>>
models == <<clip_loaded, ufd_loaded, weights_status, ufd_classifier>>
detector == <<det_initialized, det_components, det_clip_loaded>>
locals == <<image, multilid_result, ufd_result, technical_context,
            image_description, prompt, res, semantic_result, final_result,
            raised, response, inserted_row>>
vars == <<env, harness, threads, models, detector, analysis, req, pc, locals>>

\* a ForensicsPipeline object, named by the thread that constructed it
Pipeline(t) == [kind |-> "ForensicsPipeline", id |-> t]

\* the model handles of a pipeline just constructed: nothing loaded yet
NewHandles ==
    [clip_loaded |-> FALSE, clip_loads |-> 0,
     ufd_loaded |-> FALSE, ufd_inits |-> 0,
     classifier |-> None, weights_status |-> "not_loaded"]

\* what the process finds when it starts
EnvInit ==
    /\ deepseek_enabled \in BOOLEAN
    /\ weights_available \in BOOLEAN
    /\ stdout_utf8 \in BOOLEAN

\* the objects right after construction: nothing is loaded
ObjectsInit ==
    /\ clip_loaded = FALSE
    /\ ufd_loaded = FALSE
    /\ weights_status = "not_loaded"
    /\ ufd_classifier = None
    /\ det_initialized = FALSE
    /\ det_components = {}
    /\ det_clip_loaded = FALSE
    /\ pipeline_instance = None
    /\ thread_pc = [t \in Threads |-> "get_pipeline"]
    /\ thread_pipeline = [t \in Threads |-> None]
    /\ constructed = {}
    /\ handles = [t \in Threads |-> NewHandles]
    /\ thread_logits = [t \in Threads |-> None]

\* the locals of a request that has computed nothing yet
LocalsInit ==
    /\ multilid_result = None
    /\ ufd_result = None
    /\ technical_context = None
    /\ image_description = None
    /\ prompt = None
    /\ res = None
    /\ semantic_result = None
    /\ final_result = None
    /\ raised = {}
    /\ response = None
    /\ inserted_row = None

ProgramInit ==
    /\ EnvInit
    /\ ufd_weights_file \in PipelineWeightFiles
    /\ ObjectsInit
    /\ analysis = 0
    /\ req = "none"
    /\ pc = "idle"
    /\ image = None
    /\ LocalsInit

\* no function has been called on its own
NoCall == fn_call = None /\ fn_return = None

Init ==
    ProgramInit /\ td_result = None /\ td_dict = None /\ td_calls = 0 /\ NoCall

\* a new request: the locals of the previous one are gone
NewRequest(kind, img) ==
    /\ pc \in {"idle", "done"}
    /\ analysis < MaxAnalyses
    /\ analysis' = analysis + 1
    /\ req' = kind
    /\ image' = img
    /\ raised' = {}
    /\ inserted_row' = None

-----------------------------------------------------------------------------
(* POST /analyze_image: ForensicsPipeline.process, then to_dict *)

\* analyze_image, lines 37-63: the upload is saved and process() entered
StartProcess ==
    \E img \in Images :
        /\ NewRequest("analyze_image", img)
        /\ pc' = "multilid"
        /\ multilid_result' = None
        /\ ufd_result' = None
        /\ technical_context' = None
        /\ image_description' = None
        /\ prompt' = None
        /\ res' = None
        /\ semantic_result' = None
        /\ final_result' = None
        /\ response' = None
        /\ UNCHANGED <<env, harness, threads, models, detector>>

\* process, lines 91-94
MultiLIDStep ==
    /\ pc = "multilid"
    /\ multilid_result' = MultiLIDAnalyze(clip_loaded, image)
    /\ clip_loaded' = (clip_loaded \/ ~LoadModel(clip_loaded).raised)
    /\ pc' = "ufd"
    /\ UNCHANGED <<env, harness, threads, detector, analysis, req, inserted_row, image, ufd_result,
                   technical_context, image_description, prompt, res,
                   semantic_result, final_result, raised, response,
                   ufd_loaded, weights_status, ufd_classifier>>

\* process, lines 96-105
UFDStep ==
    /\ pc = "ufd"
    /\ weights_status' =
           InitClassifier(ufd_loaded, weights_status, ufd_classifier,
                          ufd_weights_file).status
    /\ ufd_classifier' =
           InitClassifier(ufd_loaded, weights_status, ufd_classifier,
                          ufd_weights_file).classifier
    /\ ufd_loaded' = TRUE
    /\ ufd_result' = UFDAnalyze(clip_loaded, image, weights_status')
    /\ clip_loaded' = (clip_loaded \/ ~LoadModel(clip_loaded).raised)
    /\ technical_context' = TechnicalContext(multilid_result, ufd_result')
    /\ pc' = "blip"
    /\ UNCHANGED <<env, harness, threads, detector, analysis, req, inserted_row, image,
                   multilid_result, image_description, prompt, res,
                   semantic_result, final_result, raised, response>>

\* process, lines 107-117: the captioner, recovered by the inner try
BlipStep ==
    \E generated \in BOOLEAN :
        LET ok == image.readable /\ generated IN
        /\ pc = "blip"
        /\ image_description' =
               IF ok THEN "a woman smiling" ELSE "imagen sin descripción"
        /\ raised' = IF ok THEN raised ELSE raised \cup {"captioner"}
        /\ pc' = "semantic"
        /\ UNCHANGED <<env, harness, threads, models, detector, analysis, req, inserted_row, image,
                       multilid_result, ufd_result, technical_context,
                       prompt, res, semantic_result, final_result, response>>

\* process, lines 119-131: SemanticForensicsExpert.analyze up to the moment
\* DeepSeekClient.ask has sent its request (requests.post, no timeout), or
\* to its end when the judge is not asked
SemanticStep ==
    LET multilid_val ==
            ContextValue(technical_context, "multilid_score", "multilid")
        ufd_val == ContextValue(technical_context, "ufd_score", "ufd")
        asked == stdout_utf8 /\ deepseek_enabled
        handled == ProcessExcept("UnicodeEncodeError")
    IN
    /\ pc = "semantic"
    /\ prompt' = IF asked
                 THEN RenderPrompt(image_description, multilid_val, ufd_val)
                 ELSE None
    /\ res' = None
    /\ IF asked
       THEN /\ pc' = "ask"
            /\ UNCHANGED <<semantic_result, final_result, raised, response>>
       ELSE IF stdout_utf8
       THEN /\ semantic_result' =
                   SemanticResult(FALSE, multilid_val, ufd_val, None)
            /\ pc' = "fusion"
            /\ UNCHANGED <<final_result, raised, response>>
       ELSE \* print() of the zone line raised: process's handler
            /\ raised' = raised \cup {"semantic"}
            /\ semantic_result' = None
            /\ IF handled.raised
               THEN /\ final_result' = None
                    /\ response' = [status |-> 500, error |-> handled.exc]
                    /\ pc' = "done"
               ELSE /\ final_result' = handled.value
                    /\ response' = None
                    /\ pc' = "serialize"
    /\ UNCHANGED <<env, harness, threads, models, detector, analysis, req, inserted_row, image,
                   multilid_result, ufd_result, technical_context,
                   image_description>>

\* requests.post returns or raises: ask() returns, evaluate_evidence and
\* SemanticForensicsExpert.analyze run to their end
AskReturns ==
    \E outcome \in ServiceOutcomes :
        LET multilid_val ==
                ContextValue(technical_context, "multilid_score", "multilid")
            ufd_val == ContextValue(technical_context, "ufd_score", "ufd")
        IN
        /\ pc = "ask"
        /\ res' = Ask(outcome)
        /\ semantic_result' = SemanticResult(TRUE, multilid_val, ufd_val, res')
        /\ pc' = "fusion"
        /\ UNCHANGED <<env, harness, threads, models, detector, analysis, req, inserted_row,
                       image, multilid_result, ufd_result, technical_context,
                       image_description, prompt, final_result, raised,
                       response>>

\* process, lines 133-150: FusionEngine.fuse
FusionStep ==
    LET f == Fuse(multilid_result, ufd_result, semantic_result)
        out == IF f.raised THEN ProcessExcept(f.exc) ELSE f
    IN
    /\ pc = "fusion"
    /\ raised' = IF f.raised THEN raised \cup {"fusion"} ELSE raised
    /\ IF out.raised
       THEN /\ final_result' = None
            /\ response' = [status |-> 500, error |-> out.exc]
            /\ pc' = "done"
       ELSE /\ final_result' = out.value
            /\ response' = None
            /\ pc' = "serialize"
    /\ UNCHANGED <<env, harness, threads, models, detector, analysis, req, inserted_row, image,
                   multilid_result, ufd_result, technical_context,
                   image_description, prompt, res, semantic_result>>

\* analyze_image, lines 65-80: the result is serialized and saved in the
\* database (insert_analysis returns None when sqlite3 raises), then
\* serialized again for the client
SerializeStep ==
    \E saved \in BOOLEAN :
    /\ pc = "serialize"
    /\ inserted_row' = IF saved
                       THEN InsertAnalysis("IMAGE", ToDict(final_result))
                       ELSE None
    /\ response' = [status |-> 200, result |-> ToDict(final_result)]
    /\ pc' = "done"
    /\ UNCHANGED <<env, harness, threads, models, detector, analysis, req, image,
                   multilid_result, ufd_result, technical_context,
                   image_description, prompt, res, semantic_result,
                   final_result, raised>>

-----------------------------------------------------------------------------
(* POST /api/fusion: routes/fusion.py *)

\* fuse_results, lines 63-86: an ExpertResult built without raw_data
RouteExpert(name, body, key) ==
    IF key \in DOMAIN body
    THEN ExpertResult(name, body[key].score, body[key].confidence, <<>>, None)
    ELSE None

\* fuse_results: the whole handler
FusionRoute ==
    \E body \in FusionBodies :
        LET valid == {"multilid_result", "ufd_result"} \subseteq DOMAIN body
            m == RouteExpert("multiLID", body, "multilid_result")
            u == RouteExpert("UFD", body, "ufd_result")
            sem == RouteExpert("Semantic", body, "semantic_result")
            f == IF valid THEN Fuse(m, u, sem) ELSE Raise("Missing field")
        IN
        /\ NewRequest("fusion", None)
        /\ multilid_result' = m
        /\ ufd_result' = u
        /\ semantic_result' = sem
        /\ technical_context' = None
        /\ image_description' = None
        /\ prompt' = None
        /\ res' = None
        /\ final_result' = IF f.raised THEN None ELSE f.value
        /\ response' =
               IF ~valid THEN [status |-> 400, error |-> f.exc]
               ELSE IF f.raised THEN [status |-> 500, error |-> f.exc]
               ELSE [status |-> 200,
                     verdict |-> f.value.verdict,
                     confidence |-> f.value.confidence,
                     scores |-> f.value.scores,
                     evidence |-> f.value.evidence,
                     notes |-> f.value.notes]
        /\ pc' = "done"
        /\ UNCHANGED <<env, harness, threads, models, detector>>

-----------------------------------------------------------------------------
(* detector.py: ImageForensicsDetector.analyze_dict *)

VERDICT_ERROR == <<"E","R","R","O","R">>

\* _lazy_load: the components it leaves constructed, and whether it raised
LazyLoad ==
    IF det_initialized THEN Return(det_components)
    ELSE IF ~stdout_utf8 THEN Raise("UnicodeEncodeError")
    ELSE LET f == FusionEngineInit({"semantic_priority"}) IN
         IF f.raised THEN f
         ELSE Return({"extractor", "multilid", "ufd", "semantic", "fusion"})

\* analyze, lines 246-270, once _lazy_load has returned
DetectorStages(img, available, outcome) ==
    IF ~img.readable THEN Raise("ValueError")
    ELSE
    LET status == InitClassifier(FALSE, "not_loaded", None,
                                 ufd_weights_file).status
        m == MultiLIDAnalyze(det_clip_loaded, img)
        u == UFDAnalyze(det_clip_loaded, img, status)
        sem == SemanticResult(available,
                              ContextValue(None, "multilid_score", "multilid"),
                              ContextValue(None, "ufd_score", "ufd"),
                              Ask(outcome))
    IN Fuse(m, u, sem)

\* a mutation of DetectorExcept: the error result carries a unified score of 0
DetectorExceptUnified(e) ==
    ForensicResult(VERDICT_ERROR, "N/A",
                   [unified |-> 0, multiLID |-> 0, UFD |-> 0, Semantic |-> 0],
                   <<"Error durante el análisis: ", e>>,
                   <<"El análisis no pudo completarse debido a un error.">>)

\* analyze, lines 279-290
DetectorExcept(e) ==
    ForensicResult(VERDICT_ERROR, "N/A",
                   [multiLID |-> 0, UFD |-> 0, Semantic |-> 0],
                   <<"Error durante el análisis: ", e>>,
                   <<"El análisis no pudo completarse debido a un error.">>)

DetectorAnalyze ==
    \E img \in DetectorImages, available \in BOOLEAN,
       outcome \in DetectorOutcomes :
        LET l == LazyLoad
            f == IF l.raised THEN l ELSE DetectorStages(img, available, outcome)
            result == IF f.raised THEN DetectorExcept(f.exc) ELSE f.value
        IN
        /\ NewRequest("detector", img)
        /\ det_components' =
               IF det_initialized \/ ~stdout_utf8 THEN det_components
               ELSE IF l.raised
               THEN {"extractor", "multilid", "ufd", "semantic"}
               ELSE l.value
        /\ det_initialized' = ~l.raised
        /\ det_clip_loaded' =
               (det_clip_loaded \/
                (~l.raised /\ img.readable /\ ~LoadModel(det_clip_loaded).raised))
        /\ multilid_result' = None
        /\ ufd_result' = None
        /\ semantic_result' = None
        /\ technical_context' = None
        /\ image_description' = None
        /\ prompt' = IF ~l.raised /\ img.readable /\ available
                     THEN RenderPrompt("imagen sin descripción",
                                       ContextValue(None, "multilid_score", "multilid"),
                                       ContextValue(None, "ufd_score", "ufd"))
                     ELSE None
        /\ res' = IF ~l.raised /\ img.readable /\ available
                  THEN Ask(outcome) ELSE None
        /\ final_result' = result
        /\ response' = [status |-> 200, result |-> ToDict(result)]
        /\ pc' = "done"
        /\ UNCHANGED <<env, harness, threads, models>>

-----------------------------------------------------------------------------

Next ==
    \/ StartProcess
    \/ MultiLIDStep
    \/ UFDStep
    \/ BlipStep
    \/ SemanticStep
    \/ AskReturns
    \/ FusionStep
    \/ SerializeStep
    \/ FusionRoute
    \/ DetectorAnalyze

Spec == Init /\ [][Next]_vars

\* the steps of process() and of its caller that the server's thread takes by
\* itself; the answer of the judge service (AskReturns) and the arrival of
\* requests are not among them
ProcessSteps ==
    \/ MultiLIDStep
    \/ UFDStep
    \/ BlipStep
    \/ SemanticStep
    \/ FusionStep
    \/ SerializeStep

\* the pipeline with a thread that keeps running while it has a step to take
SpecLive == Init /\ [][Next]_vars /\ WF_vars(ProcessSteps)

-----------------------------------------------------------------------------
(* Concurrent first requests: each thread of the server runs get_pipeline()  *)
(* and then the model loads that process() triggers in the two experts       *)

Goto(t, label) == thread_pc' = [thread_pc EXCEPT ![t] = label]

\* get_pipeline, line 23: `if pipeline_instance is None`
GetPipelineTest(t) ==
    /\ thread_pc[t] = "get_pipeline"
    /\ Goto(t, IF pipeline_instance = None THEN "construct" ELSE "return")
    /\ UNCHANGED <<pipeline_instance, thread_pipeline, constructed, handles,
                   thread_logits>>

\* get_pipeline, lines 24-25: pipeline_instance = ForensicsPipeline()
GetPipelineConstruct(t) ==
    /\ thread_pc[t] = "construct"
    /\ constructed' = constructed \cup {t}
    /\ pipeline_instance' = Pipeline(t)
    /\ Goto(t, "return")
    /\ UNCHANGED <<thread_pipeline, handles, thread_logits>>

\* get_pipeline, line 26, and analyze_image, line 39
GetPipelineReturn(t) ==
    /\ thread_pc[t] = "return"
    /\ thread_pipeline' = [thread_pipeline EXCEPT ![t] = pipeline_instance]
    /\ Goto(t, "multilid_ensure")
    /\ UNCHANGED <<pipeline_instance, constructed, handles, thread_logits>>

\* _load_model, line 69: `if self._loaded`, reached from MultiLIDExpert.analyze
\* and then from UFDExpert.analyze
EnsureLoadedTest(t) ==
    LET p == thread_pipeline[t].id
        first == thread_pc[t] = "multilid_ensure"
    IN
    /\ thread_pc[t] \in {"multilid_ensure", "ufd_ensure"}
    /\ Goto(t, IF handles[p].clip_loaded
               THEN (IF first THEN "init_classifier" ELSE "classify")
               ELSE (IF first THEN "multilid_load" ELSE "ufd_load"))
    /\ UNCHANGED <<pipeline_instance, thread_pipeline, constructed, handles,
                   thread_logits>>

\* _load_model, lines 72-110: clip.load, then _loaded = True; when it raises
\* the expert recovers (UFDExpert.analyze without computing a logit) and the
\* thread goes on
LoadModelRun(t) ==
    LET p == thread_pipeline[t].id
        first == thread_pc[t] = "multilid_load"
        l == LoadModel(FALSE)
    IN
    /\ thread_pc[t] \in {"multilid_load", "ufd_load"}
    /\ handles' = IF l.raised THEN handles
                  ELSE [handles EXCEPT ![p].clip_loaded = TRUE,
                                       ![p].clip_loads = @ + 1]
    /\ Goto(t, IF first THEN "init_classifier"
               ELSE IF l.raised THEN "done" ELSE "classify")
    /\ UNCHANGED <<pipeline_instance, thread_pipeline, constructed,
                   thread_logits>>

\* _init_classifier, line 156: `if self._loaded`
InitClassifierTest(t) ==
    LET p == thread_pipeline[t].id IN
    /\ thread_pc[t] = "init_classifier"
    /\ Goto(t, IF handles[p].ufd_loaded THEN "ufd_ensure" ELSE "init_weights")
    /\ UNCHANGED <<pipeline_instance, thread_pipeline, constructed, handles,
                   thread_logits>>

\* _init_classifier, lines 159-162: self._classifier is assigned a new
\* LinearClassifier, whose weights are those of its construction
InitClassifierConstruct(t) ==
    LET p == thread_pipeline[t].id IN
    /\ thread_pc[t] = "init_weights"
    /\ handles' = [handles EXCEPT
                       ![p].classifier = [by |-> t, weights |-> "not_loaded"]]
    /\ Goto(t, "load_weights")
    /\ UNCHANGED <<pipeline_instance, thread_pipeline, constructed,
                   thread_logits>>

\* _init_classifier, lines 164-192: the weights are loaded into the object
\* that self._classifier now names, _weights_status is set, then _loaded = True
InitClassifierRun(t) ==
    LET p == thread_pipeline[t].id
        status == InitClassifier(FALSE, "not_loaded", None,
                                 ufd_weights_file).status
    IN
    /\ thread_pc[t] = "load_weights"
    /\ handles' = [handles EXCEPT ![p].classifier.weights = status,
                                  ![p].weights_status = status,
                                  ![p].ufd_loaded = TRUE,
                                  ![p].ufd_inits = @ + 1]
    /\ Goto(t, "ufd_ensure")
    /\ UNCHANGED <<pipeline_instance, thread_pipeline, constructed,
                   thread_logits>>

\* UFDExpert.analyze, lines 281-317: the logit is computed with the object
\* self._classifier names, and self._weights_status is reported with it
Classify(t) ==
    LET p == thread_pipeline[t].id IN
    /\ thread_pc[t] = "classify"
    /\ thread_logits' =
           [thread_logits EXCEPT
               ![t] = [classifier |-> handles[p].classifier,
                       weights_status |-> handles[p].weights_status]]
    /\ Goto(t, "done")
    /\ UNCHANGED <<pipeline_instance, thread_pipeline, constructed, handles>>

LazyNext ==
    \E t \in Threads :
        /\ \/ GetPipelineTest(t)
           \/ GetPipelineConstruct(t)
           \/ GetPipelineReturn(t)
           \/ EnsureLoadedTest(t)
           \/ LoadModelRun(t)
           \/ InitClassifierTest(t)
           \/ InitClassifierConstruct(t)
           \/ InitClassifierRun(t)
           \/ Classify(t)
        /\ UNCHANGED <<env, harness, models, detector, analysis, req, pc, locals>>

SpecLazy == Init /\ [][LazyNext]_vars

-----------------------------------------------------------------------------
(* The two numeric experts on every weights file and on logits around 0 *)

\* process() entered with one of the images, no model loaded yet
UfdInit ==
    /\ EnvInit
    /\ ufd_weights_file \in WeightFiles
    /\ ObjectsInit
    /\ analysis = 1
    /\ req = "analyze_image"
    /\ pc = "multilid"
    /\ image \in UfdImages
    /\ LocalsInit
    /\ td_result = None
    /\ td_dict = None
    /\ td_calls = 0
    /\ NoCall

UfdNext ==
    \/ MultiLIDStep
    \/ UFDStep

SpecUfd == UfdInit /\ [][UfdNext]_vars

-----------------------------------------------------------------------------
(* to_dict on every verdict of the enumeration and every unified score *)

\* unified scores tried, in 10^-5 units: below 0, around each threshold, above 1
UnifiedGrid ==
    {-30000, 0, 12345, 19999, 20000, 20001, 49999, 50000, 60000, 60001,
     84999, 85000, 85001, 95000, 100000, 170000}

ScoreMaps ==
    {[unified |-> u] : u \in UnifiedGrid} \cup {[multilid |-> 50000]}

TdInit ==
    /\ td_result \in {[verdict |-> v, confidence |-> "ALTA", scores |-> s,
                       evidence |-> <<>>, notes |-> <<>>] :
                      v \in Verdict, s \in ScoreMaps}
    /\ td_dict = None
    /\ td_calls = 0
    /\ NoCall
    /\ ProgramInit

\* to_dict() reads self and assigns nothing to it
ToDictCall ==
    /\ td_result # None
    /\ td_calls < MaxToDictCalls
    /\ td_calls' = td_calls + 1
    /\ td_dict' = ToDict(td_result)
    /\ UNCHANGED <<td_result, fn_call, fn_return, env, threads, models,
                   detector, analysis, req, pc, locals>>

TdNext == ToDictCall

SpecToDict == TdInit /\ [][TdNext]_vars

-----------------------------------------------------------------------------
(* Functions called on their own: the LID estimator, MultiLIDExpert.analyze *)
(* with the backbone loaded, and FusionEngine.fuse on two pairs of findings *)

CallsInit ==
    /\ ProgramInit
    /\ deepseek_enabled
    /\ weights_available
    /\ stdout_utf8
    /\ ufd_weights_file.kind = "absent"
    /\ td_result = None
    /\ td_dict = None
    /\ td_calls = 0
    /\ fn_call \in LidCalls \cup AnalyzeCalls \cup FuseCalls
    /\ fn_return = None

\* the call is made once; nothing else of the program runs
Calling(fn) ==
    /\ fn_call.fn = fn
    /\ fn_return = None
    /\ UNCHANGED <<td_result, td_dict, td_calls, fn_call, env, threads, models,
                   detector, analysis, req, pc, locals>>

CallComputeLid ==
    /\ Calling("compute_lid_single_point")
    /\ fn_return' = ComputeLidSinglePoint(fn_call.features, fn_call.k)

CallAnalyze ==
    /\ Calling("analyze")
    /\ fn_return' = MultiLIDAnalyze(TRUE, fn_call.image)

\* fuse reads its arguments and builds a new ForensicResult
CallFuse ==
    /\ Calling("fuse")
    /\ fn_return' =
           [first |-> Fuse(fn_call.first.multilid, fn_call.first.ufd,
                           fn_call.semantic),
            second |-> Fuse(fn_call.second.multilid, fn_call.second.ufd,
                            fn_call.semantic)]

CallsNext ==
    \/ CallComputeLid
    \/ CallAnalyze
    \/ CallFuse

SpecCalls == CallsInit /\ [][CallsNext]_vars

\* the function fn was called on its own and has returned
Called(fn) == fn_call # None /\ fn_call.fn = fn /\ fn_return # None

DenotesSynthetic(v) == v \in {IA_CONFIRMED, IA_PROBABLE}
DenotesReal(v) == v \in {REAL_PROBABLE, REAL_CONFIRMED}

-----------------------------------------------------------------------------
(* Claims about the fusion engine, the semantic judge and the pipeline *)

\* process() has returned to analyze_image, or the request is over
Returned == req = "analyze_image" /\ pc \in {"serialize", "done"}

\* the ForensicResult at hand was built by FusionEngine.fuse
Fused ==
    /\ req \in {"analyze_image", "fusion"}
    /\ final_result # None
    /\ raised \cap {"semantic", "fusion"} = {}

\* evaluate_evidence was entered with the engine enabled and has returned
Judged ==
    /\ req = "analyze_image"
    /\ deepseek_enabled
    /\ res # None
    /\ semantic_result # None

C3_DiffusionFloor ==
    (Judged /\ semantic_result.raw_data.multilid >= 20000) =>
        semantic_result.score >= 75000

\* C4 as stated: process always returns a ForensicResult, and whenever any of
\* its steps raised, the result is the error verdict with confidence N/A.
C4_AnyRaiseIsError ==
    Returned =>
        /\ final_result # None
        /\ raised # {} =>
               /\ final_result.verdict = ERROR_EN_ANALISIS
               /\ final_result.confidence = "N/A"

\* C4 amended: process always returns a ForensicResult with a verdict and a
\* confidence label; an exception that reaches its outer handler gives the
\* error verdict with confidence N/A, while an exception of the captioner
\* alone is recovered and the analysis ends with a fused verdict.
C4_ProcessTotal ==
    Returned =>
        /\ final_result # None
        /\ final_result.verdict \in {VERDICT_IA, VERDICT_REAL, ERROR_EN_ANALISIS}
        /\ final_result.confidence \in {"ALTA", "N/A"}
        /\ raised \cap {"semantic", "fusion"} # {} =>
               /\ final_result.verdict = ERROR_EN_ANALISIS
               /\ final_result.confidence = "N/A"
        /\ raised \subseteq {"captioner"} =>
               /\ final_result.verdict \in {VERDICT_IA, VERDICT_REAL}
               /\ final_result.confidence = "ALTA"

\* C4 witness: the semantic stage raised and process returned the error result
C4_Witness ==
    /\ Returned
    /\ "semantic" \in raised
    /\ final_result # None
    /\ final_result.verdict = ERROR_EN_ANALISIS
    /\ final_result.confidence = "N/A"

\* C5: when the backbone's weights cannot be loaded, the pipeline's result is
\* the error verdict with confidence N/A, never a fused IA or REAL verdict.
C5_BackboneFatal ==
    (Returned /\ ~weights_available) =>
        /\ final_result # None
        /\ final_result.verdict = ERROR_EN_ANALISIS
        /\ final_result.confidence = "N/A"

\* C6: fuse called without a semantic finding reports as unified score the
\* arithmetic mean of the two numeric experts' scores.
C6_MeanFallback ==
    (req = "fusion" /\ final_result # None /\ semantic_result = None) =>
        2 * final_result.scores.unified =
            multilid_result.score + ufd_result.score

\* C7: when ask() returned success=False, evaluate_evidence returns exactly
\* the neutral score 0.5, whatever multilid and ufd are.
C7_FailureIsNeutral ==
    (Judged /\ ~res.success) => semantic_result.score = 50000

\* the reasoning evaluate_evidence gives on the inputs of this analysis when
\* the service answers with the text t
ReasoningFor(t) ==
    EvaluateEvidence(TRUE, semantic_result.raw_data.multilid,
                     semantic_result.raw_data.ufd,
                     Ask([ok |-> TRUE, text |-> t])).reasoning

\* the texts whose last part is a JSON object with a numeric score or none
ParsedTexts ==
    {t \in Texts :
        /\ t[Len(t)].kind = "json"
        /\ ~PyFloat(DictGet(t[Len(t)].data, "ai_probability_score",
                            Number(50000))).raised}

\* C8: the reasoning returned for a failed service call differs from the one
\* returned for an answer without a JSON object, and both differ from every
\* reasoning of a successfully parsed answer.
C8_DistinctReasoning ==
    (Judged /\ ~res.success) =>
        LET mine == semantic_result.raw_data.reasoning
            nojson == ReasoningFor(<<[kind |-> "plain"]>>)
        IN /\ mine # nojson
           /\ \A t \in ParsedTexts :
                  mine # ReasoningFor(t) /\ nojson # ReasoningFor(t)

\* C9: the score evaluate_evidence returns, and the unified score of every
\* result of the pipeline, lie in [0,1].
C9_ScoreInRange ==
    /\ Judged => semantic_result.score \in 0..100000
    /\ Returned =>
           /\ final_result # None
           /\ final_result.scores.unified \in 0..100000

\* the score an expert result must carry for the image of this request
ScoreOfThisAnalysis(r, field) ==
    IF "error" \in DOMAIN r.raw_data THEN r.score = 50000
    ELSE IF field = "lid" THEN r.score = SyntheticScore(image.z_scores)
    ELSE r.score = ApplyTemperature(image.logit)

\* C10: the judge is prompted only once both numeric experts have completed,
\* and the multilid and ufd values rendered in the prompt are the scores of
\* this analysis's MultiLID and UFD results.
C10_PromptAfterExperts ==
    prompt # None =>
        /\ multilid_result # None
        /\ ufd_result # None
        /\ ScoreOfThisAnalysis(multilid_result, "lid")
        /\ ScoreOfThisAnalysis(ufd_result, "ufd")
        /\ prompt.multilid = Format4(multilid_result.score)
        /\ prompt.ufd = Format4(ufd_result.score)

\* C10 witness: in the second analysis the judge was prompted with the
\* scores 0.19996 and 0.40002 of that analysis's experts
C10_Witness ==
    /\ prompt # None
    /\ analysis = 2
    /\ req = "analyze_image"
    /\ multilid_result.score = 19996
    /\ ufd_result.score = 40002
    /\ prompt.multilid = 2000
    /\ prompt.ufd = 4000

-----------------------------------------------------------------------------
(* Claims about lazy initialisation, the judge's network call and UFD *)

\* C11: for every interleaving of concurrent first requests, ForensicsPipeline
\* is constructed at most once, and the CLIP backbone and the UFD classifier of
\* each pipeline are loaded at most once.
C11_LoadedAtMostOnce ==
    /\ Cardinality(constructed) <= 1
    /\ \A p \in Threads :
           /\ handles[p].clip_loads <= 1
           /\ handles[p].ufd_inits <= 1

\* C12: every analysis that process() has begun eventually returns to its
\* caller, even when the judge service never answers the request of ask().
C12_AnalysisReturns ==
    (req = "analyze_image" /\ pc = "multilid") ~> (pc = "done")

\* the layouts of the weights file in their priority order: the key of the
\* weight and the key of the bias
Layouts ==
    << <<"fc.weight", "fc.bias">>, <<"weight", "bias">>,
       <<"model.fc.weight", "model.fc.bias">> >>

LayoutPresent(sd, i) == {Layouts[i][1], Layouts[i][2]} \subseteq DOMAIN sd

\* the tensors fit fc = Linear(768, 1)
Loadable(weight, bias) ==
    /\ weight.type = "tensor"
    /\ bias.type = "tensor"
    /\ weight.shape = <<1, 768>>
    /\ bias.shape = <<1>>

\* the classifier that probing the layouts in priority order yields, or None
\* when no layout can be loaded
ProbedClassifier(sd) ==
    IF \E i \in 1..3 : LayoutPresent(sd, i)
    THEN LET i == CHOOSE i \in 1..3 :
                      /\ LayoutPresent(sd, i)
                      /\ \A j \in 1..(i - 1) : ~LayoutPresent(sd, j)
         IN IF Loadable(sd[Layouts[i][1]], sd[Layouts[i][2]])
            THEN LinearClassifier(sd[Layouts[i][1]], sd[Layouts[i][2]])
            ELSE None
    ELSE IF /\ Cardinality(DOMAIN sd) = 1
            /\ \A k \in DOMAIN sd : sd[k].type = "tensor"
            /\ \A k \in DOMAIN sd : sd[k].shape = <<1, 768>>
    THEN LinearClassifier(sd[CHOOSE k \in DOMAIN sd : TRUE],
                          Tensor(<<1>>, "zero"))
    ELSE None

\* C13: once _init_classifier has run, the classifier holds the tensors of the
\* first layout (fc.weight/fc.bias, weight/bias, model.fc.weight/model.fc.bias,
\* a single (1, 768) tensor with zero bias) whose keys the file has, with
\* weights_status "loaded_from_file"; when no layout can be loaded or the file
\* is absent it holds the calibrated initialization with "calibrated_init".
C13_LayoutProbing ==
    ufd_loaded =>
        LET expected == IF ufd_weights_file.kind = "state_dict"
                        THEN ProbedClassifier(ufd_weights_file.tensors)
                        ELSE None
        IN IF expected # None
           THEN /\ weights_status = "loaded_from_file"
                /\ ufd_classifier = expected
           ELSE /\ weights_status = "calibrated_init"
                /\ ufd_classifier = CalibratedWeights

\* C14: the confidence UFDExpert reports with weights that were not loaded
\* from a file is strictly less than the confidence _compute_confidence gives
\* to the same probability and logit with weights_status "loaded_from_file".
C14_UncalibratedLessConfident ==
    (/\ ufd_result # None
     /\ "weights_status" \in DOMAIN ufd_result.raw_data
     /\ ufd_result.raw_data.weights_status # "loaded_from_file") =>
        ufd_result.confidence <
            ComputeConfidence(ufd_result.raw_data.probability,
                              ufd_result.raw_data.logits, "loaded_from_file")

-----------------------------------------------------------------------------
(* Claims about the experts' recovery and the end-to-end scenarios *)

\* the backbone cannot be loaded or the image cannot be opened
ExpertFails == ~image.readable \/ ~weights_available \/ ~stdout_utf8

\* the exception extract_features raises in this environment
ExpertException ==
    IF ~stdout_utf8 THEN "UnicodeEncodeError"
    ELSE IF ~weights_available THEN "RuntimeError: Model ViT-L/14 not found"
    ELSE "UnidentifiedImageError"

\* score 0.5, confidence 0.1 and an evidence line with the exception's text
IsNeutral(r) ==
    /\ r.score = 50000
    /\ r.confidence = 10000
    /\ \E i \in DOMAIN r.evidence :
           \E j \in DOMAIN r.evidence[i] : r.evidence[i][j] = ExpertException

\* C15: when analysing raises in MultiLIDExpert.analyze or UFDExpert.analyze,
\* the expert returns score 0.5, confidence 0.1 and an evidence line with the
\* exception's text; process() is not sent to its error handler by it and the
\* next stage receives the neutral score.
C15_ExpertsRecover ==
    (req = "analyze_image" /\ ExpertFails) =>
        /\ multilid_result # None => IsNeutral(multilid_result)
        /\ ufd_result # None =>
               /\ IsNeutral(ufd_result)
               /\ technical_context = [multilid |-> 50000, ufd |-> 50000]
        /\ pc \in {"ufd", "blip"} =>
               /\ raised = {}
               /\ final_result = None
               /\ response = None

\* C15 witness: the backbone could not be loaded, both experts returned the
\* neutral result and the pipeline is at the captioner
C15_Witness ==
    /\ req = "analyze_image"
    /\ pc = "blip"
    /\ image.readable
    /\ stdout_utf8
    /\ ~weights_available
    /\ IsNeutral(multilid_result)
    /\ IsNeutral(ufd_result)
    /\ raised = {}

\* C16: when every layer's z-score is 0 (MultiLID score sigmoid(-1)) and the
\* logit is strongly negative (UFD score near 0), the pipeline's verdict is the
\* real verdict and the unified score is at most 0.20.
C16_NaturalImageIsReal ==
    (/\ Returned
     /\ image = NaturalImage
     /\ multilid_result.score = Sigmoid(-100000)
     /\ ufd_result.score = ApplyTemperature(NaturalImage.logit)) =>
        /\ final_result # None
        /\ final_result.verdict = VERDICT_REAL
        /\ final_result.scores.unified <= 20000

\* the service answered with a JSON object whose ai_probability_score is v
JudgeAnswered(v) ==
    /\ Judged
    /\ res.success
    /\ LET last == res.response[Len(res.response)] IN
       /\ last.kind = "json"
       /\ "ai_probability_score" \in DOMAIN last.data
       /\ last.data.ai_probability_score = Number(v)

\* C17: whenever the judge service answers with ai_probability_score = 0.95,
\* the pipeline's verdict is the synthetic verdict and the unified score is at
\* least 0.85, whatever the two numeric experts' scores are.
C17_JudgeSaysSynthetic ==
    (Returned /\ JudgeAnswered(95000)) =>
        /\ final_result # None
        /\ final_result.verdict = VERDICT_IA
        /\ final_result.scores.unified >= 85000

\* the elements of a occur in b in the same order
RECURSIVE IsSubsequence(_, _)
IsSubsequence(a, b) ==
    IF a = <<>> THEN TRUE
    ELSE IF b = <<>> THEN FALSE
    ELSE IF Head(a) = Head(b) THEN IsSubsequence(Tail(a), Tail(b))
    ELSE IsSubsequence(a, Tail(b))

\* C18: the evidence of the result of fuse holds every evidence line of the
\* MultiLID, UFD and semantic findings, in order, and the reasoning string
\* chosen from the semantic judge.
C18_EvidenceMerged ==
    (Fused /\ req = "analyze_image") =>
        /\ IsSubsequence(multilid_result.evidence, final_result.evidence)
        /\ IsSubsequence(ufd_result.evidence, final_result.evidence)
        /\ IsSubsequence(semantic_result.evidence, final_result.evidence)
        /\ \E i \in DOMAIN final_result.evidence :
               final_result.evidence[i] = semantic_result.raw_data.reasoning

\* C19: the mapping to_dict() returns for a result of the pipeline has the
\* keys verdict, confidence, ai_probability, real_probability, scores,
\* evidence and notes, ai_probability lies in [0, 100] and real_probability is
\* 100 minus ai_probability.
C19_SerializedInRange ==
    (req = "analyze_image" /\ pc = "done" /\ response.status = 200) =>
        LET d == response.result IN
        /\ {"verdict", "confidence", "ai_probability", "real_probability",
            "scores", "evidence", "notes"} \subseteq DOMAIN d
        /\ d.ai_probability \in 0..1000
        /\ d.real_probability = 1000 - d.ai_probability

\* C20: to_dict() leaves the ForensicResult as it was, the scores it returns
\* are the result's scores with the raw unified value, also when
\* ai_probability was floored, capped or pinned, and a repeated call returns
\* the same mapping.
C20_DisplayOnly ==
    /\ [](td_dict # None => td_dict.scores = td_result.scores)
    /\ [][/\ td_result' = td_result
          /\ td_dict # None => td_dict' = td_dict]_vars

\* C20 witness: a real verdict with unified 0.95 was serialized twice: the
\* display says 20% and the scores still say 0.95
C20_Witness ==
    /\ td_calls = 2
    /\ td_result.verdict = REAL_CONFIRMED
    /\ "unified" \in DOMAIN td_result.scores
    /\ td_result.scores.unified = 95000
    /\ td_dict.ai_probability = 200
    /\ td_dict.scores = [unified |-> 95000]

-----------------------------------------------------------------------------
(* Claims about the fusion threshold, the Gradio detector and the database *)

\* C21: fuse returns the IA verdict whenever the semantic finding's score is
\* strictly greater than 0.50, also when both numeric experts score low.
C21_AboveHalfIsIA ==
    (Fused /\ semantic_result # None /\ semantic_result.score > 50000) =>
        final_result.verdict = VERDICT_IA

\* C22: once analyze() has returned for an image that can be read, the
\* detector is initialized with its five components and the verdict is not
\* "ERROR".
C22_InitializedOnFirstAnalyze ==
    (req = "detector" /\ pc = "done" /\ image.readable) =>
        /\ det_initialized
        /\ "fusion" \in det_components
        /\ final_result.verdict # VERDICT_ERROR

\* C23: the row insert_analysis saves for an analysis of the analyze_image
\* route has an ai_probability in [0, 100] equal to the ai_probability of the
\* serialized result, and meta_1 and meta_2 are the MultiLID and UFD scores of
\* that analysis.
C23_StoredRowMatches ==
    (/\ req = "analyze_image"
     /\ pc = "done"
     /\ inserted_row # None
     /\ "fusion" \notin raised
     /\ final_result.verdict \in {VERDICT_IA, VERDICT_REAL}) =>
        /\ inserted_row.ai_probability \in 0..1000
        /\ inserted_row.ai_probability = response.result.ai_probability
        /\ inserted_row.meta_1 = multilid_result.score
        /\ inserted_row.meta_2 = ufd_result.score

-----------------------------------------------------------------------------
(* Claims about the LID estimator, the zones and MultiLIDExpert.analyze *)

\* every pair of different chunks is at the same distance
AllDistancesEqual(features) ==
    \/ features.kind = "equidistant"
    \/ /\ features.kind = "line"
       /\ \A i, j \in DOMAIN features.chunks :
              /\ features.chunks[i].kind = "finite"
              /\ features.chunks[i] = features.chunks[j]

\* the chunks whose neighbours give a finite positive LID
YieldingChunks(features, k) ==
    LET distances == Squareform(features, NChunks(features.dim, k)) IN
    {i \in DOMAIN distances :
        LET lid == ChunkLid(distances[i], k) IN
        lid.kind = "finite" /\ lid.v > 0}

\* C24: _compute_lid_single_point returns a finite number, never nan or an
\* infinity: 0.0 when all chunk-to-chunk distances are equal or no chunk
\* yields a finite positive LID, and otherwise a positive mean.
C24_LidIsFinite ==
    Called("compute_lid_single_point") =>
        /\ fn_return.kind = "finite"
        /\ IF \/ AllDistancesEqual(fn_call.features)
              \/ YieldingChunks(fn_call.features, fn_call.k) = {}
           THEN fn_return.v = 0
           ELSE fn_return.v > 0

\* C24 witness: chunks pairwise at the distance 2, k = 3: every quotient is
\* -3 / 0.0 and the estimator returned the fallback 0.0
C24_Witness ==
    /\ Called("compute_lid_single_point")
    /\ fn_call.features.kind = "equidistant"
    /\ fn_call.features.d = 2
    /\ fn_call.k = 3
    /\ \A i \in 1..6 :
           ChunkLid(Squareform(fn_call.features, 6)[i], 3) = NegInf
    /\ fn_return = Finite(0)

\* the four zones of a pair of expert scores, as the claim delimits them
InZone(z, m, u) ==
    IF z = 1 THEN m >= 20000
    ELSE IF z = 3 THEN m < 20000 /\ u > 40000
    ELSE IF z = 2 THEN m < 20000 /\ u < 38000
    ELSE m < 20000 /\ 38000 <= u /\ u <= 40000

AnalyzedWithoutError ==
    Called("analyze") /\ "error" \notin DOMAIN fn_return.raw_data

\* C26: on the non-error path MultiLIDExpert.analyze returns a score in [0,1]
\* that is at least 0.75 when some layer has |z| > 3.0 and at least 0.5 when
\* some layer has |z| > 2.0, whatever the sign of z, and a confidence of 0.9,
\* 0.7 or 0.5 for a standard deviation of the z-scores below 1.0, below 2.0,
\* or not.
C26_ScoreFloorsAndConfidence ==
    AnalyzedWithoutError =>
        LET z == fn_call.image.z_scores IN
        /\ fn_return.score \in 0..100000
        /\ (\E i \in DOMAIN z : AbsInt(z[i]) > 300000) =>
               fn_return.score >= 75000
        /\ (\E i \in DOMAIN z : AbsInt(z[i]) > 200000) =>
               fn_return.score >= 50000
        /\ fn_return.confidence =
               IF VarZ(z) < 10000 THEN 90000
               ELSE IF VarZ(z) < 40000 THEN 70000
               ELSE 50000

\* C26 witness: one layer at z = -3.5 and three at z = 2.0: the sigmoid gives
\* 0.16452 and the score is the floor 0.75, with confidence 0.5
C26_Witness ==
    /\ AnalyzedWithoutError
    /\ fn_call.image.z_scores = <<-350000, 200000, 200000, 200000>>
    /\ Sigmoid((0 - MeanZ(fn_call.image.z_scores)) - 100000) = 16452
    /\ fn_return.score = 75000
    /\ fn_return.confidence = 50000

\* C27: when the chunk distances of every layer are all equal, analyze
\* returns the recoverable-failure result, score 0.5 with confidence 0.1.
C27_DegenerateIsNeutral ==
    (/\ Called("analyze")
     /\ "layers" \in DOMAIN fn_call.image
     /\ \A i \in DOMAIN fn_call.image.layers :
            AllDistancesEqual(fn_call.image.layers[i])) =>
        /\ fn_return.score = 50000
        /\ fn_return.confidence = 10000

-----------------------------------------------------------------------------
(* Claims about the classifier under concurrency, fuse and the error results *)

C28_ClassifierReadOnly ==
    /\ \A p \in Threads :
           handles[p].ufd_loaded =>
               handles[p].classifier.weights = handles[p].weights_status
    /\ \A t \in Threads :
           thread_logits[t] # None =>
               thread_logits[t].classifier.weights =
                   thread_logits[t].weights_status

====
